---------------------------- MODULE Spec2Model ----------------------------
(***************************************************************************)
(* A model of fgivenx: the parallel execution engine (parallel.py), the    *)
(* sample reduction pipeline and function evaluation stage (samples.py,    *)
(* __init__.py) and the probability mass transform (mass.py).              *)
(*                                                                         *)
(* Arrays are sequences; a 2-D array is a sequence of rows of equal width. *)
(* Python's None is the empty tuple << >>, and an optional value v is the  *)
(* one-element tuple <<v>>.                                                *)
(***************************************************************************)
EXTENDS Integers, Sequences, FiniteSets, TLC

(***************************************************************************)
(* Bounds of the model.                                                    *)
(***************************************************************************)
MaxLen == 3
MaxProcs == 3
MaxRows == 2
MaxCol == 3
MinCount == 3

VARIABLES
    \* ---- one call of the parallel execution engine ----
    backend,        \* "openmp" or "mpi": the caller-supplied mode
    array,          \* the array argument: a sequence of rows
    precurry,       \* kwargs['precurry']
    postcurry,      \* kwargs['postcurry']
    environ,        \* os.environ restricted to OMP_NUM_THREADS
    nprocs,         \* openmp_apply's nprocs argument: << >> (None) or <<k>>
    n_jobs,         \* the nprocs handed to Parallel(n_jobs=nprocs)
    omp_pc,         \* position of openmp_apply
    started,        \* joblib: number of tasks dispatched so far
    running,        \* joblib: indices of the tasks being evaluated
    results,        \* joblib: index -> result of the finished tasks
    warned,         \* whether the OMP_NUM_THREADS=1 warning was printed
    raised,         \* the exception the call ended with, or "none"
    nEvals,         \* number of evaluations of f so far
    answer,         \* the value returned to the caller (rank 0 for mpi)
    size,           \* comm.Get_size()
    pc,             \* rank -> position of mpi_apply on that rank
    sendcounts,     \* rank 0's sendcounts of mpi_scatter_array (rows)
    displacements,  \* rank 0's displacements of mpi_scatter_array (rows)
    inflight,       \* rank -> << >> or <<message>>: the scatter's messages
    array_local,    \* rank -> the rank's shard
    answer_local,   \* rank -> the rank's results so far
    gathered,       \* rank -> << >> or <<message>>: the gather's messages
    \* ---- trim_samples and the global random generator ----
    rng,            \* numpy.random's global state: [key, pos]
    rng_at_call,    \* history: the global state when trim_samples was entered
    t_pc,           \* position of trim_samples
    t_samples,      \* trim_samples' samples argument
    t_weights,      \* trim_samples' weights argument
    t_state,        \* trim_samples' local state
    t_new,          \* trim_samples' local new_samples
    \* ---- compute_contours -> compute_samples -> the evaluation stage ----
    args,           \* the arguments of the compute_contours call
    cc_pc,          \* position of the call
    samples,        \* compute_samples' local list of sample arrays
    weights,        \* compute_samples' local list of weight arrays
    wmax,           \* compute_samples' local wmax
    ntot,           \* compute_samples' local ntot
    trim_i,         \* the index of the trimming loop
    eval_i,         \* the index of the evaluation loop
    fsamples,       \* samples.compute_samples' local list of matrices
    fsamps,         \* the function-evaluation matrix returned
    y_out,          \* the y-grid compute_contours returns
    exc,            \* the exception the call ended with, or "none"
    cache_store,    \* the persisted cache entry: << >> or <<entry>>
    checked,        \* history: "no", "hit" or "miss": cache.check's outcome
    nTrim,          \* history: calls of trim_samples in this call
    nCacheOps,      \* history: calls of cache.check and cache.save
    nSaves,         \* history: calls of cache.save in this call
    nF,             \* history: evaluations of f in this call
    nFAtSave,       \* history: evaluations of f made when save was called
    calls,          \* number of compute_contours calls begun
    \* ---- PMF: the probability mass transform of one column ----
    column,         \* the caller's array passed as samples
    pmf_pc,         \* position of PMF.__init__ / __call__
    ts,             \* PMF.__init__'s local ts
    ts_is_samples,  \* whether ts is the caller's array itself
    ps,             \* PMF.__init__'s local ps
    logms,          \* self._logpmf's values, as the masses they are logs of
    t_arg,          \* the argument of __call__
    mass            \* the value __call__ returned

parVars == <<backend, array, precurry, postcurry, environ, nprocs, n_jobs, omp_pc,
             started, running, results, warned, raised, nEvals, answer,
             size, pc, sendcounts, displacements, inflight, array_local,
             answer_local, gathered>>

trimVars == <<rng, rng_at_call, t_pc, t_samples, t_weights, t_state, t_new>>

pipeVars == <<args, cc_pc, samples, weights, wmax, ntot, trim_i, eval_i,
              fsamples, fsamps, y_out, exc, cache_store, checked, nTrim,
              nCacheOps, nSaves, nF, nFAtSave, calls>>

pmfVars == <<column, pmf_pc, ts, ts_is_samples, ps, logms, t_arg, mass>>

vars == <<parVars, trimVars, pipeVars, pmfVars>>

None == << >>

(***************************************************************************)
(* Helpers on sequences and flat buffers.                                  *)
(***************************************************************************)
RECURSIVE Flatten(_)
Flatten(rows) ==
    IF rows = << >> THEN << >> ELSE Head(rows) \o Flatten(Tail(rows))

Reshape(buf, w) ==
    [i \in 1..(Len(buf) \div w) |-> SubSeq(buf, (i - 1) * w + 1, i * w)]

RECURSIVE SumSeq(_)
SumSeq(s) == IF s = << >> THEN 0 ELSE Head(s) + SumSeq(Tail(s))

\* numpy.cumsum
CumSum(s) == [i \in 1..Len(s) |-> SumSeq(SubSeq(s, 1, i))]

\* numpy.insert(numpy.cumsum(counts)[:-1], 0, 0)
Displacements(counts) ==
    <<0>> \o SubSeq(CumSum(counts), 1, Len(counts) - 1)

\* numpy.prod(shape[1:]) of a 2-D array of rows of width w
Scale(s, w) == [i \in 1..Len(s) |-> s[i] * w]

(***************************************************************************)
(* The user function.  f is pure and of uniform output shape; it is        *)
(* modelled by the free interpretation that returns its flattened argument *)
(* list, so that two applications agree only when their arguments agree.   *)
(***************************************************************************)
Apply(pre, x, post) == pre \o x \o post

\* The contract of section 4.2: [f(*precurry, x, *postcurry) for x in array]
Contract(pre, arr, post) == [i \in 1..Len(arr) |-> Apply(pre, arr[i], post)]

Vals == {0, 1}
Rows(w) == [1..w -> Vals]
Widths == {1, 2}
Arrays == UNION {[1..n -> Rows(w)] : n \in 1..MaxLen, w \in Widths}
PreArgs == {<< >>, <<7>>}
PostArgs == {<< >>, <<9>>}


(***************************************************************************)
(* parallel.py: mpi_scatter_array, mpi_apply, mpi_gather_array.            *)
(* Rank r is position r + 1 of the per-rank sequences.                     *)
(***************************************************************************)
Ranks == 0..(size - 1)

\* sendcounts = numpy.array([n//nprocs]*nprocs)
\* sendcounts[:n-sum(sendcounts)] += 1
SendCountsRemainderLast(n, np) ==
    LET base == [r \in 1..np |-> n \div np]
        rem == n - SumSeq(base)
    IN  [r \in 1..np |-> IF r > np - rem THEN base[r] + 1 ELSE base[r]]

SendCounts(n, np) ==
    LET base == [r \in 1..np |-> n \div np]
        rem == n - SumSeq(base)
    IN  [r \in 1..np |-> IF r <= rem THEN base[r] + 1 ELSE base[r]]

\* comm.Scatterv([array, sendcounts, displacements, MPI.DOUBLE], array_local):
\* rank r receives count[r] elements of the flat buffer starting at displ[r]
ScattervChunk(buf, counts, displs, r) ==
    SubSeq(buf, displs[r + 1] + 1, displs[r + 1] + counts[r + 1])

\* The root's half of mpi_scatter_array: sendcounts, displacements, and the
\* three collectives (bcast of the shape, scatter of the counts, Scatterv).
ScatterRoot ==
    /\ backend = "mpi"
    /\ pc[1] = "scatter"
    /\ LET n == Len(array)
           w == Len(array[1])
           sc == SendCounts(n, size)
           ds == Displacements(sc)
           buf == Flatten(array)
           msg(r) == [shape |-> w, sendcount |-> sc[r + 1],
                      data |-> ScattervChunk(buf, Scale(sc, w), Scale(ds, w), r)]
       IN  /\ sendcounts' = sc
           /\ displacements' = ds
           /\ inflight' = [r \in 1..size |-> IF r = 1 THEN None ELSE <<msg(r - 1)>>]
           /\ array_local' = [array_local EXCEPT ![1] = Reshape(msg(0).data, w)]
    /\ pc' = [pc EXCEPT ![1] = "compute"]
    /\ UNCHANGED <<backend, array, precurry, postcurry, environ, nprocs, n_jobs, omp_pc,
                   started, running, results, warned, raised, nEvals, answer,
                   size, answer_local, gathered>>
    /\ UNCHANGED <<trimVars, pipeVars, pmfVars>>

\* mpi_scatter_array on a rank other than 0: blocks until the root has sent.
ScatterRecv(r) ==
    /\ backend = "mpi"
    /\ r # 0
    /\ pc[r + 1] = "scatter"
    /\ inflight[r + 1] # None
    /\ LET m == inflight[r + 1][1]
       IN  array_local' = [array_local EXCEPT ![r + 1] = Reshape(m.data, m.shape)]
    /\ inflight' = [inflight EXCEPT ![r + 1] = None]
    /\ pc' = [pc EXCEPT ![r + 1] = "compute"]
    /\ UNCHANGED <<backend, array, precurry, postcurry, environ, nprocs, n_jobs, omp_pc,
                   started, running, results, warned, raised, nEvals, answer,
                   size, sendcounts, displacements, answer_local, gathered>>
    /\ UNCHANGED <<trimVars, pipeVars, pmfVars>>

\* mpi_apply evaluates function(x): the kwargs other than comm are not read.
MpiFunction(x) == Apply(<< >>, x, << >>)

\* One iteration of [function(x) for x in array_local] on rank r.
MpiEval(r) ==
    /\ backend = "mpi"
    /\ pc[r + 1] = "compute"
    /\ Len(answer_local[r + 1]) < Len(array_local[r + 1])
    /\ LET x == array_local[r + 1][Len(answer_local[r + 1]) + 1]
       IN  answer_local' = [answer_local EXCEPT
                               ![r + 1] = Append(@, MpiFunction(x))]
    /\ nEvals' = nEvals + 1
    /\ UNCHANGED <<backend, array, precurry, postcurry, environ, nprocs, n_jobs, omp_pc,
                   started, running, results, warned, raised, answer,
                   size, pc, sendcounts, displacements, inflight, array_local,
                   gathered>>
    /\ UNCHANGED <<trimVars, pipeVars, pmfVars>>

\* mpi_gather_array on a rank other than 0: contributes its length and its
\* rows and returns None.
GatherSend(r) ==
    /\ backend = "mpi"
    /\ r # 0
    /\ pc[r + 1] = "compute"
    /\ Len(answer_local[r + 1]) = Len(array_local[r + 1])
    /\ gathered' = [gathered EXCEPT
                       ![r + 1] = <<[len |-> Len(answer_local[r + 1]),
                                     data |-> Flatten(answer_local[r + 1])]>>]
    /\ pc' = [pc EXCEPT ![r + 1] = "done"]
    /\ UNCHANGED <<backend, array, precurry, postcurry, environ, nprocs, n_jobs, omp_pc,
                   started, running, results, warned, raised, nEvals, answer,
                   size, sendcounts, displacements, inflight, array_local,
                   answer_local>>
    /\ UNCHANGED <<trimVars, pipeVars, pmfVars>>

\* comm.Gatherv(array_local, [array, sendcounts, displacements, MPI.DOUBLE])
\* into array = numpy.zeros(...): the ranks' buffers are written in turn, each
\* at its displacement.
RECURSIVE GathervInto(_, _, _, _, _)
GathervInto(buf, bufs, counts, displs, r) ==
    IF r > Len(bufs) THEN buf
    ELSE GathervInto(
             [j \in 1..Len(buf) |->
                 IF j > displs[r] /\ j <= displs[r] + counts[r]
                     /\ j - displs[r] <= Len(bufs[r])
                 THEN bufs[r][j - displs[r]] ELSE buf[j]],
             bufs, counts, displs, r + 1)

GatherDisplacementsZero(counts) == [i \in 1..Len(counts) |-> 0]

GatherDisplacements(counts) == Displacements(counts)

\* mpi_gather_array on rank 0: blocks until every rank has contributed.
GatherRoot ==
    /\ backend = "mpi"
    /\ pc[1] = "compute"
    /\ Len(answer_local[1]) = Len(array_local[1])
    /\ \A r \in Ranks \ {0} : gathered[r + 1] # None
    /\ LET lens == [r \in 1..size |->
                       IF r = 1 THEN Len(answer_local[1]) ELSE gathered[r][1].len]
           bufs == [r \in 1..size |->
                       IF r = 1 THEN Flatten(answer_local[1]) ELSE gathered[r][1].data]
           \* shape = array_local.shape of rank 0's results
           w == Len(answer_local[1][1])
           ds == GatherDisplacements(lens)
           zeros == [j \in 1..(SumSeq(lens) * w) |-> 0]
       IN  answer' = <<Reshape(GathervInto(zeros, bufs, Scale(lens, w),
                                           Scale(ds, w), 1), w)>>
    /\ pc' = [pc EXCEPT ![1] = "done"]
    /\ gathered' = [r \in 1..size |-> None]
    /\ UNCHANGED <<backend, array, precurry, postcurry, environ, nprocs, n_jobs, omp_pc,
                   started, running, results, warned, raised, nEvals,
                   size, sendcounts, displacements, inflight, array_local,
                   answer_local>>
    /\ UNCHANGED <<trimVars, pipeVars, pmfVars>>

(***************************************************************************)
(* parallel.py: openmp_apply.                                              *)
(***************************************************************************)
EnvStrings == {"", "0", "1", "2", "abc"}
Environs == {[k \in {} |-> ""]} \cup
            {[k \in {"OMP_NUM_THREADS"} |-> s] : s \in EnvStrings}

\* int(s) for the strings of EnvStrings: <<k>>, or None for a ValueError
PyInt(s) ==
    CASE s = "0" -> <<0>>
      [] s = "1" -> <<1>>
      [] s = "2" -> <<2>>
      [] OTHER -> None

\* os.environ['OMP_NUM_THREADS'] is 1: the identity of a str and an int
EnvIsOne(s) == FALSE

\* The body of openmp_apply up to the construction of Parallel(n_jobs=nprocs).
\* joblib rejects n_jobs = 0 with a ValueError before any task is dispatched.
OmpEnter ==
    /\ backend = "openmp"
    /\ omp_pc = "start"
    /\ IF nprocs = None
       THEN IF "OMP_NUM_THREADS" \notin DOMAIN environ
            THEN /\ raised' = "KeyError"
                 /\ omp_pc' = "done"
                 /\ UNCHANGED <<warned, n_jobs>>
            ELSE LET v == environ["OMP_NUM_THREADS"]
                 IN  IF v = ""
                     THEN /\ raised' = "EnvironmentError"
                          /\ omp_pc' = "done"
                          /\ UNCHANGED <<warned, n_jobs>>
                     ELSE /\ warned' = EnvIsOne(v)
                          /\ IF PyInt(v) = None \/ PyInt(v) = <<0>>
                             THEN /\ raised' = "ValueError"
                                  /\ omp_pc' = "done"
                                  /\ UNCHANGED n_jobs
                             ELSE /\ n_jobs' = PyInt(v)
                                  /\ omp_pc' = "apply"
                                  /\ UNCHANGED raised
       ELSE /\ n_jobs' = nprocs
            /\ omp_pc' = "apply"
            /\ UNCHANGED <<warned, raised>>
    /\ UNCHANGED <<backend, array, precurry, postcurry, environ, nprocs,
                   started, running, results, nEvals, answer,
                   size, pc, sendcounts, displacements, inflight, array_local,
                   answer_local, gathered>>
    /\ UNCHANGED <<trimVars, pipeVars, pmfVars>>

\* joblib hands the next task of the generator to a free worker.
OmpDispatch ==
    /\ backend = "openmp"
    /\ omp_pc = "apply"
    /\ started < Len(array)
    /\ Cardinality(running) < n_jobs[1]
    /\ started' = started + 1
    /\ running' = running \cup {started + 1}
    /\ UNCHANGED <<backend, array, precurry, postcurry, environ, nprocs, n_jobs, omp_pc,
                   results, warned, raised, nEvals, answer,
                   size, pc, sendcounts, displacements, inflight, array_local,
                   answer_local, gathered>>
    /\ UNCHANGED <<trimVars, pipeVars, pmfVars>>

\* delayed(f)(*precurry, x, *postcurry)
OmpTask(x) == Apply(precurry, x, postcurry)

\* A worker finishes its task; joblib files the result under the task's index.
OmpFinish(i) ==
    /\ backend = "openmp"
    /\ omp_pc = "apply"
    /\ i \in running
    /\ running' = running \ {i}
    /\ results' = [results EXCEPT ![i] = <<OmpTask(array[i])>>]
    /\ nEvals' = nEvals + 1
    /\ UNCHANGED <<backend, array, precurry, postcurry, environ, nprocs, n_jobs, omp_pc,
                   started, warned, raised, answer,
                   size, pc, sendcounts, displacements, inflight, array_local,
                   answer_local, gathered>>
    /\ UNCHANGED <<trimVars, pipeVars, pmfVars>>

\* Parallel(...)(...) returns the list of results in task order.
OmpReturn ==
    /\ backend = "openmp"
    /\ omp_pc = "apply"
    /\ started = Len(array)
    /\ running = {}
    /\ answer' = <<[i \in 1..Len(array) |-> results[i][1]]>>
    /\ omp_pc' = "done"
    /\ UNCHANGED <<backend, array, precurry, postcurry, environ, nprocs, n_jobs,
                   started, running, results, warned, raised, nEvals,
                   size, pc, sendcounts, displacements, inflight, array_local,
                   answer_local, gathered>>
    /\ UNCHANGED <<trimVars, pipeVars, pmfVars>>

(***************************************************************************)
(* Non-negative rationals <<n, d>> in lowest terms: the weights.           *)
(***************************************************************************)
RECURSIVE GCD(_, _)
GCD(a, b) == IF b = 0 THEN a ELSE GCD(b, a % b)

Rat(n, d) == LET g == GCD(n, d) IN <<n \div g, d \div g>>
RAdd(a, b) == Rat(a[1] * b[2] + b[1] * a[2], a[2] * b[2])
RMul(a, b) == Rat(a[1] * b[1], a[2] * b[2])
RDiv(a, b) == Rat(a[1] * b[2], a[2] * b[1])
RLt(a, b) == a[1] * b[2] < b[1] * a[2]
RLe(a, b) == a[1] * b[2] <= b[1] * a[2]

(***************************************************************************)
(* numpy.random: the global generator.  A state is a seed key and the      *)
(* number of draws made since seeding; Stream gives the uniform draws of   *)
(* the Mersenne Twister after seed(1) and after seed(0), in 1/10000.       *)
(***************************************************************************)
Stream ==
    [key \in {0, 1} |->
        IF key = 1 THEN <<4170, 7203, 1, 3023, 1468, 923>>
                   ELSE <<5488, 7152, 6028, 5449, 4237, 6459>>]
StreamLen == Len(Stream[1])
RngStates == [key : {0, 1}, pos : 0..(StreamLen - 1)]

\* the k-th uniform draw made from state st
Draw(st, k) == Rat(Stream[st.key][st.pos + k], 10000)

\* numpy.random.seed(1)
Seeded == [key |-> 1, pos |-> 0]

(***************************************************************************)
(* samples.py: trim_samples, statement by statement.                       *)
(***************************************************************************)
\* state = numpy.random.get_state()
TrimGetState ==
    /\ t_pc = "get_state"
    /\ t_state' = rng
    /\ t_pc' = "seed"
    /\ UNCHANGED <<rng, rng_at_call, t_samples, t_weights, t_new>>
    /\ UNCHANGED <<parVars, pipeVars, pmfVars>>

\* numpy.random.seed(1)
TrimSeed ==
    /\ t_pc = "seed"
    /\ rng' = Seeded
    /\ t_pc' = "rand"
    /\ UNCHANGED <<rng_at_call, t_samples, t_weights, t_state, t_new>>
    /\ UNCHANGED <<parVars, pipeVars, pmfVars>>

\* choices = numpy.random.rand(n) < weights
Choices(st, w) == [i \in 1..Len(w) |-> RLt(Draw(st, i), w[i])]

\* samples[choices]
RECURSIVE Mask(_, _)
Mask(s, c) ==
    IF s = << >> THEN << >>
    ELSE (IF Head(c) THEN <<Head(s)>> ELSE << >>) \o Mask(Tail(s), Tail(c))

\* n = len(weights); choices = ...; new_samples = samples[choices]
TrimRand ==
    /\ t_pc = "rand"
    /\ t_new' = Mask(t_samples, Choices(rng, t_weights))
    /\ rng' = [rng EXCEPT !.pos = @ + Len(t_weights)]
    /\ t_pc' = "set_state"
    /\ UNCHANGED <<rng_at_call, t_samples, t_weights, t_state>>
    /\ UNCHANGED <<parVars, pipeVars, pmfVars>>

RestoredStateSkipped(saved, current) == current

\* the state numpy.random.set_state(state) installs
RestoredState(saved, current) == saved

\* numpy.random.set_state(state)
TrimSetState ==
    /\ t_pc = "set_state"
    /\ rng' = RestoredState(t_state, rng)
    /\ t_pc' = "return"
    /\ UNCHANGED <<rng_at_call, t_samples, t_weights, t_state, t_new>>
    /\ UNCHANGED <<parVars, pipeVars, pmfVars>>

NextTrimBody == TrimGetState \/ TrimSeed \/ TrimRand \/ TrimSetState

IdleTrim ==
    /\ rng = [key |-> 0, pos |-> 0]
    /\ rng_at_call = rng
    /\ t_pc = "idle"
    /\ t_samples = << >>
    /\ t_weights = << >>
    /\ t_state = None
    /\ t_new = << >>

(***************************************************************************)
(* trim_samples called directly, between unrelated uses of the generator.  *)
(***************************************************************************)
WeightVals == {Rat(0, 1), Rat(1, 3), Rat(1, 2), Rat(2, 3), Rat(1, 1)}

\* a call trim_samples(samples, weights) with len(samples) = len(weights)
TrimCallDirect ==
    /\ t_pc = "idle"
    /\ \E n \in 0..MaxRows :
           /\ t_samples' = [i \in 1..n |-> <<i>>]
           /\ t_weights' \in [1..n -> WeightVals]
    /\ rng_at_call' = rng
    /\ t_pc' = "get_state"
    /\ UNCHANGED <<rng, t_state, t_new>>
    /\ UNCHANGED <<parVars, pipeVars, pmfVars>>

\* return new_samples.copy()
TrimReturnDirect ==
    /\ t_pc = "return"
    /\ t_pc' = "idle"
    /\ UNCHANGED <<rng, rng_at_call, t_samples, t_weights, t_state, t_new>>
    /\ UNCHANGED <<parVars, pipeVars, pmfVars>>

\* randomness elsewhere in the process: a draw from the global generator
CallerDraw ==
    /\ t_pc = "idle"
    /\ rng.pos < StreamLen - 1
    /\ rng' = [rng EXCEPT !.pos = @ + 1]
    /\ UNCHANGED <<rng_at_call, t_pc, t_samples, t_weights, t_state, t_new>>
    /\ UNCHANGED <<parVars, pipeVars, pmfVars>>

InitTrim ==
    /\ rng \in RngStates
    /\ rng_at_call = rng
    /\ t_pc = "idle"
    /\ t_samples = << >>
    /\ t_weights = << >>
    /\ t_state = None
    /\ t_new = << >>

NextTrim ==
    \/ TrimCallDirect
    \/ NextTrimBody
    \/ TrimReturnDirect
    \/ CallerDraw

(***************************************************************************)
(* __init__.py: compute_contours and compute_samples; samples.py:          *)
(* compute_samples.  One call of compute_contours, step by step.           *)
(*                                                                         *)
(* args.f is the list of functions (TRUE: callable), args.samples the list *)
(* of sample arrays [ndim, rows], args.weights the list of weight arrays   *)
(* (None or <<w>>); with logZs = None they stand for the single function,  *)
(* array and weights the caller passed, already wrapped in lists.          *)
(* logZs are in units of ln 2, so that exp(logZ - max) is a rational.      *)
(***************************************************************************)
DefaultNtrim == 100000
DefaultNy == 100
LinspaceNum == 50

notPipe == <<parVars, trimVars, pmfVars>>

RECURSIVE MaxInt(_)
MaxInt(s) ==
    IF Len(s) = 1 THEN s[1]
    ELSE LET m == MaxInt(Tail(s)) IN IF s[1] > m THEN s[1] ELSE m

RECURSIVE MinInt(_)
MinInt(s) ==
    IF Len(s) = 1 THEN s[1]
    ELSE LET m == MinInt(Tail(s)) IN IF s[1] < m THEN s[1] ELSE m

RECURSIVE RSum(_)
RSum(w) == IF w = << >> THEN Rat(0, 1) ELSE RAdd(Head(w), RSum(Tail(w)))

RECURSIVE RMax(_)
RMax(w) ==
    IF Len(w) = 1 THEN w[1]
    ELSE LET m == RMax(Tail(w)) IN IF RLt(m, w[1]) THEN w[1] ELSE m

RECURSIVE Pow2(_)
Pow2(k) == IF k = 0 THEN 1 ELSE 2 * Pow2(k - 1)

\* compute_contours: the keyword check and the check of y (which reads
\* x.shape).
ContoursError(a) ==
    IF a.extra THEN "TypeError"
    ELSE IF a.y # None /\ a.x.ndim # 1 THEN "ValueError"
    ELSE "none"

ContoursEnter ==
    /\ cc_pc = "contours"
    /\ exc' = ContoursError(args)
    /\ cc_pc' = IF ContoursError(args) = "none" THEN "cs_args" ELSE "done"
    /\ UNCHANGED <<args, samples, weights, wmax, ntot, trim_i, eval_i,
                   fsamples, fsamps, y_out, cache_store, checked, nTrim,
                   nCacheOps, nSaves, nF, nFAtSave, calls>>
    /\ UNCHANGED notPipe

\* compute_samples: the argument checking, in the order of the code.
SamplesError(a) ==
    IF a.logZs # None /\ Len(a.logZs[1]) # Len(a.f) THEN "ValueError"
    ELSE IF a.logZs # None /\ Len(a.logZs[1]) # Len(a.samples) THEN "ValueError"
    ELSE IF a.logZs # None /\ Len(a.logZs[1]) # Len(a.weights) THEN "ValueError"
    ELSE IF \E i \in 1..Len(a.f) : ~a.f[i] THEN "ValueError"
    ELSE IF \E i \in 1..Len(a.samples) : a.samples[i].ndim # 2 THEN "ValueError"
    ELSE IF a.x.ndim # 1 THEN "ValueError"
    ELSE IF \E i \in 1..Len(a.samples) :
                /\ i <= Len(a.weights)
                /\ a.weights[i] # None
                /\ Len(a.weights[i][1]) # Len(a.samples[i].rows)
         THEN "ValueError"
    ELSE "none"

\* weights = [numpy.array(i) if i is not None else numpy.ones(len(s)) ...]
WeightArray(w, s) ==
    IF w = None THEN [i \in 1..Len(s.rows) |-> Rat(1, 1)]
    ELSE [i \in 1..Len(w[1]) |-> Rat(w[1][i], 1)]

SamplesArgs ==
    /\ cc_pc = "cs_args"
    /\ exc' = SamplesError(args)
    /\ IF SamplesError(args) = "none"
       THEN /\ samples' = [i \in 1..Len(args.samples) |-> args.samples[i].rows]
            /\ weights' = [i \in 1..Len(args.samples) |->
                              WeightArray(args.weights[i], args.samples[i])]
            /\ cc_pc' = "normalise"
       ELSE /\ cc_pc' = "done"
            /\ UNCHANGED <<samples, weights>>
    /\ UNCHANGED <<args, wmax, ntot, trim_i, eval_i,
                   fsamples, fsamps, y_out, cache_store, checked, nTrim,
                   nCacheOps, nSaves, nF, nFAtSave, calls>>
    /\ UNCHANGED notPipe

\* Zs = numpy.exp(logZs-logZs.max())
Zs(lz) == [m \in 1..Len(lz) |-> Rat(1, Pow2(MaxInt(lz) - lz[m]))]

\* weights = [w/w.sum()*Z for w, Z in zip(weights,Zs)]
EvidenceScale(ws, lz) ==
    [m \in 1..Len(ws) |->
        [i \in 1..Len(ws[m]) |-> RMul(RDiv(ws[m][i], RSum(ws[m])), Zs(lz)[m])]]

\* wmax = max([w.max() for w in weights])
WMax(ws) == RMax([m \in 1..Len(ws) |-> RMax(ws[m])])

\* weights = [w/wmax for w in weights]
DivideBy(ws, d) ==
    [m \in 1..Len(ws) |-> [i \in 1..Len(ws[m]) |-> RDiv(ws[m][i], d)]]

\* ntot = sum([w.sum() for w in weights])
NTot(ws) == RSum([m \in 1..Len(ws) |-> RSum(ws[m])])

TrimScaleAlways(ws, nt) ==
    [m \in 1..Len(ws) |->
        [i \in 1..Len(ws[m]) |->
            RDiv(RMul(ws[m][i], Rat(nt, 1)), NTot(ws))]]

\* if ntrim is not None and ntrim < ntot:
\*     weights = [w*ntrim/ntot for w in weights]
TrimScale(ws, nt) ==
    IF RLt(Rat(nt, 1), NTot(ws))
    THEN [m \in 1..Len(ws) |->
             [i \in 1..Len(ws[m]) |->
                 RDiv(RMul(ws[m][i], Rat(nt, 1)), NTot(ws))]]
    ELSE ws

LogZs(a) == IF a.logZs = None THEN <<0>> ELSE a.logZs[1]

\* compute_samples: the computation of the acceptance probabilities.
\* w.max() of an array of no elements raises ValueError.
Normalise ==
    /\ cc_pc = "normalise"
    /\ LET w1 == EvidenceScale(weights, LogZs(args))
       IN  IF \E m \in 1..Len(w1) : w1[m] = << >>
           THEN /\ exc' = "ValueError"
                /\ cc_pc' = "done"
                /\ UNCHANGED <<weights, wmax, ntot, trim_i>>
           ELSE LET w2 == DivideBy(w1, WMax(w1))
                IN  /\ wmax' = <<WMax(w1)>>
                    /\ ntot' = <<NTot(w2)>>
                    /\ weights' = TrimScale(w2, args.ntrim)
                    /\ trim_i' = 1
                    /\ cc_pc' = "trim"
                    /\ UNCHANGED exc
    /\ UNCHANGED <<args, samples, eval_i,
                   fsamples, fsamps, y_out, cache_store, checked, nTrim,
                   nCacheOps, nSaves, nF, nFAtSave, calls>>
    /\ UNCHANGED notPipe

\* for i, (s, w) in enumerate(zip(samples, weights)):
\*     samples[i] = fgivenx.samples.trim_samples(s, w)       (the call)
PipeTrimCall ==
    /\ cc_pc = "trim"
    /\ trim_i <= Len(samples)
    /\ t_pc = "idle"
    /\ t_samples' = samples[trim_i]
    /\ t_weights' = weights[trim_i]
    /\ rng_at_call' = rng
    /\ t_pc' = "get_state"
    /\ nTrim' = nTrim + 1
    /\ UNCHANGED <<rng, t_state, t_new>>
    /\ UNCHANGED <<args, cc_pc, samples, weights, wmax, ntot, trim_i, eval_i,
                   fsamples, fsamps, y_out, exc, cache_store, checked,
                   nCacheOps, nSaves, nF, nFAtSave, calls>>
    /\ UNCHANGED <<parVars, pmfVars>>

\*     samples[i] = fgivenx.samples.trim_samples(s, w)       (the return)
PipeTrimReturn ==
    /\ cc_pc = "trim"
    /\ t_pc = "return"
    /\ samples' = [samples EXCEPT ![trim_i] = t_new]
    /\ trim_i' = trim_i + 1
    /\ t_pc' = "idle"
    /\ UNCHANGED <<rng, rng_at_call, t_samples, t_weights, t_state, t_new>>
    /\ UNCHANGED <<args, cc_pc, weights, wmax, ntot, eval_i,
                   fsamples, fsamps, y_out, exc, cache_store, checked, nTrim,
                   nCacheOps, nSaves, nF, nFAtSave, calls>>
    /\ UNCHANGED <<parVars, pmfVars>>

\* Cache.check(x, samples): the stored result if the stored x and samples
\* equal the arguments, None for a CacheError.
CacheKey(x, ss) == [x |-> x, samples |-> Flatten(ss)]

CacheCheck(store, x, ss) ==
    IF store # None /\ store[1].key = CacheKey(x, ss)
    THEN <<store[1].result>> ELSE None

\* Cache.save(x, samples, result): the entry that replaces the stored one
CacheSave(x, ss, r) == <<[key |-> CacheKey(x, ss), result |-> r]>>

\* samples.compute_samples: the keyword handling and the cache check.
FsEnter ==
    /\ cc_pc = "trim"
    /\ trim_i > Len(samples)
    /\ t_pc = "idle"
    /\ IF args.cache # None
       THEN /\ nCacheOps' = nCacheOps + 1
            /\ IF CacheCheck(cache_store, args.x.vals, samples) # None
               THEN /\ fsamps' = CacheCheck(cache_store, args.x.vals, samples)
                    /\ checked' = "hit"
                    /\ cc_pc' = "grid"
               ELSE /\ checked' = "miss"
                    /\ cc_pc' = "fs_eval"
                    /\ UNCHANGED fsamps
       ELSE /\ cc_pc' = "fs_eval"
            /\ UNCHANGED <<nCacheOps, checked, fsamps>>
    /\ fsamples' = << >>
    /\ eval_i' = 1
    /\ UNCHANGED <<args, samples, weights, wmax, ntot, trim_i,
                   y_out, exc, cache_store, nTrim,
                   nSaves, nF, nFAtSave, calls>>
    /\ UNCHANGED notPipe

\* The user functions: model m's function at x_j and theta.
F(m, xj, theta) == 100 * m + 10 * theta[1] + xj

\* parallel_apply(fi, s, precurry=(x,), parallel=parallel) by its contract:
\* [fi(x, theta) for theta in s], each a vector over the x-grid
ParallelApply(m, s, x) ==
    [k \in 1..Len(s) |-> [j \in 1..Len(x) |-> F(m, x[j], s[k])]]

\* numpy.array(fsamps).transpose()
Transpose(mat, nx) == [j \in 1..nx |-> [k \in 1..Len(mat) |-> mat[k][j]]]

\* numpy.concatenate(fsamples, axis=1)
ConcatAxis1(ms, nx) ==
    [j \in 1..nx |-> Flatten([m \in 1..Len(ms) |-> ms[m][j]])]

\* One iteration of: for fi, s in zip(f, samples): if len(s) > 0: ...
FsEval ==
    /\ cc_pc = "fs_eval"
    /\ eval_i <= Len(samples)
    /\ IF Len(samples[eval_i]) > 0
       THEN /\ fsamples' = Append(fsamples,
                               Transpose(ParallelApply(eval_i, samples[eval_i],
                                                       args.x.vals),
                                         Len(args.x.vals)))
            /\ nF' = nF + Len(samples[eval_i])
       ELSE UNCHANGED <<fsamples, nF>>
    /\ eval_i' = eval_i + 1
    /\ UNCHANGED <<args, cc_pc, samples, weights, wmax, ntot, trim_i,
                   fsamps, y_out, exc, cache_store, checked, nTrim,
                   nCacheOps, nSaves, nFAtSave, calls>>
    /\ UNCHANGED notPipe

\* fsamples = numpy.concatenate(fsamples,axis=1): a ValueError when the list
\* is empty.
FsConcat ==
    /\ cc_pc = "fs_eval"
    /\ eval_i > Len(samples)
    /\ IF fsamples = << >>
       THEN /\ exc' = "ValueError"
            /\ cc_pc' = "done"
            /\ UNCHANGED fsamps
       ELSE /\ fsamps' = <<ConcatAxis1(fsamples, Len(args.x.vals))>>
            /\ cc_pc' = "fs_save"
            /\ UNCHANGED exc
    /\ UNCHANGED <<args, samples, weights, wmax, ntot, trim_i, eval_i,
                   fsamples, y_out, cache_store, checked, nTrim,
                   nCacheOps, nSaves, nF, nFAtSave, calls>>
    /\ UNCHANGED notPipe

\* if cache is not None: cache.save(x, samples, fsamples); return fsamples
FsSave ==
    /\ cc_pc = "fs_save"
    /\ IF args.cache # None
       THEN /\ cache_store' = CacheSave(args.x.vals, samples, fsamps[1])
            /\ nCacheOps' = nCacheOps + 1
            /\ nSaves' = nSaves + 1
            /\ nFAtSave' = nF
       ELSE UNCHANGED <<cache_store, nCacheOps, nSaves, nFAtSave>>
    /\ cc_pc' = "grid"
    /\ UNCHANGED <<args, samples, weights, wmax, ntot, trim_i, eval_i,
                   fsamples, fsamps, y_out, exc, checked, nTrim,
                   nF, calls>>
    /\ UNCHANGED notPipe

\* compute_contours after compute_samples has returned: the y-grid.
\* numpy.linspace(ymin, ymax) is a grid of numpy's default number of points.
ContoursGrid ==
    /\ cc_pc = "grid"
    /\ y_out' = IF args.y = None
                THEN <<[lo |-> MinInt(Flatten(fsamps[1])),
                        hi |-> MaxInt(Flatten(fsamps[1])),
                        num |-> LinspaceNum]>>
                ELSE args.y
    /\ cc_pc' = "done"
    /\ UNCHANGED <<args, samples, weights, wmax, ntot, trim_i, eval_i,
                   fsamples, fsamps, exc, cache_store, checked, nTrim,
                   nCacheOps, nSaves, nF, nFAtSave, calls>>
    /\ UNCHANGED notPipe

MaxCalls == 2

\* The caller repeats a cached call with the same arguments (a resumed run);
\* the cache entry and the global generator are what the first call left.
CallAgain ==
    /\ cc_pc = "done"
    /\ args.cache # None
    /\ calls < MaxCalls
    /\ calls' = calls + 1
    /\ cc_pc' = "contours"
    /\ samples' = << >>
    /\ weights' = << >>
    /\ wmax' = None
    /\ ntot' = None
    /\ trim_i' = 0
    /\ eval_i' = 0
    /\ fsamples' = << >>
    /\ fsamps' = None
    /\ y_out' = None
    /\ exc' = "none"
    /\ checked' = "no"
    /\ nTrim' = 0
    /\ nCacheOps' = 0
    /\ nSaves' = 0
    /\ nF' = 0
    /\ nFAtSave' = 0
    /\ UNCHANGED <<args, cache_store>>
    /\ UNCHANGED notPipe

(***************************************************************************)
(* The arguments of the calls explored.                                    *)
(***************************************************************************)
XGrid == [ndim |-> 1, vals |-> <<0, 1>>]

SampleArray(n) == [ndim |-> 2, rows |-> [i \in 1..n |-> <<i>>]]

\* weight vectors of length n with a positive sum: positive weights, and
\* one with zeros
WeightSeqs(n) == [1..n -> {1, 2}] \cup {[i \in 1..n |-> IF i = 1 THEN 1 ELSE 0]}

\* (samples, weights) of one model
ModelCores ==
    UNION {{[s |-> SampleArray(n), w |-> None]} \cup
           {[s |-> SampleArray(n), w |-> <<w>>] : w \in WeightSeqs(n)}
              : n \in 0..MaxRows}

PlainCores == {[s |-> SampleArray(n), w |-> None] : n \in 0..MaxRows}

LogZLists == {<<0, 0>>, <<-1, 0>>}

CallsOf(cores, ntrims, caches) ==
    {[extra |-> FALSE, f |-> <<TRUE>>, x |-> XGrid, y |-> None,
      samples |-> <<c.s>>, weights |-> <<c.w>>, logZs |-> None,
      ntrim |-> nt, ny |-> DefaultNy, cache |-> ch] : c \in cores, nt \in ntrims, ch \in caches}
    \cup
    {[extra |-> FALSE, f |-> <<TRUE, TRUE>>, x |-> XGrid, y |-> None,
      samples |-> <<c.s, d.s>>, weights |-> <<c.w, d.w>>, logZs |-> <<lz>>,
      ntrim |-> nt, ny |-> DefaultNy, cache |-> ch]
        : c \in cores, d \in cores, lz \in LogZLists, nt \in ntrims, ch \in caches}

\* a resolution of the y axis a caller asks for in place of the default
GivenNy == 3

\* the well-formed calls
ValidCalls == CallsOf(ModelCores, {1, DefaultNtrim}, {None, <<"c">>})

\* a well-formed call changed in one respect
Variations == {"y_1d", "y_2d", "ny", "extra", "x_2d", "samples_1d",
               "weights_len", "f_not_callable", "len_f", "len_samples",
               "len_weights"}

Vary(a, v) ==
    CASE v = "y_1d" -> [a EXCEPT !.y = <<[ndim |-> 1]>>]
      [] v = "y_2d" -> [a EXCEPT !.y = <<[ndim |-> 2]>>]
      [] v = "ny" -> [a EXCEPT !.ny = GivenNy]
      [] v = "extra" -> [a EXCEPT !.extra = TRUE]
      [] v = "x_2d" -> [a EXCEPT !.x = [ndim |-> 2, vals |-> <<0, 1>>]]
      [] v = "samples_1d" -> [a EXCEPT !.samples[1].ndim = 1]
      [] v = "weights_len" ->
             [a EXCEPT !.weights[1] =
                 <<[i \in 1..(Len(a.samples[1].rows) + 1) |-> 1]>>]
      [] v = "f_not_callable" -> [a EXCEPT !.f[1] = FALSE]
      [] v = "len_f" -> [a EXCEPT !.f = Append(@, TRUE)]
      [] v = "len_samples" -> [a EXCEPT !.samples = Append(@, SampleArray(1))]
      [] v = "len_weights" -> [a EXCEPT !.weights = Append(@, None)]

ListVariations == {"len_f", "len_samples", "len_weights"}

\* (the lists have lengths of their own only in a multi-model call)
VariedCalls ==
    LET base == CallsOf(PlainCores, {DefaultNtrim}, {<<"c">>})
    IN  {Vary(a, v) : a \in base, v \in Variations \ ListVariations}
        \cup {Vary(a, v) : a \in {b \in base : b.logZs # None},
                            v \in ListVariations}

\* a stored entry of another computation
StaleEntry == <<[key |-> CacheKey(<<0, 1>>, <<<<<<9>>>>>>), result |-> <<<<0>>, <<0>>>>]>>

IdlePipe ==
    /\ args = [extra |-> FALSE, f |-> <<TRUE>>, x |-> XGrid, y |-> None,
               samples |-> <<SampleArray(1)>>, weights |-> <<None>>,
               logZs |-> None, ntrim |-> DefaultNtrim, ny |-> DefaultNy,
               cache |-> None]
    /\ cc_pc = "idle"
    /\ samples = << >>
    /\ weights = << >>
    /\ wmax = None
    /\ ntot = None
    /\ trim_i = 0
    /\ eval_i = 0
    /\ fsamples = << >>
    /\ fsamps = None
    /\ y_out = None
    /\ exc = "none"
    /\ cache_store = None
    /\ checked = "no"
    /\ nTrim = 0
    /\ nCacheOps = 0
    /\ nSaves = 0
    /\ nF = 0
    /\ nFAtSave = 0
    /\ calls = 0

InitPipe ==
    /\ args \in ValidCalls \cup VariedCalls
    /\ cc_pc = "contours"
    /\ samples = << >>
    /\ weights = << >>
    /\ wmax = None
    /\ ntot = None
    /\ trim_i = 0
    /\ eval_i = 0
    /\ fsamples = << >>
    /\ fsamps = None
    /\ y_out = None
    /\ exc = "none"
    /\ cache_store \in IF args.cache = None THEN {None} ELSE {None, StaleEntry}
    /\ checked = "no"
    /\ nTrim = 0
    /\ nCacheOps = 0
    /\ nSaves = 0
    /\ nF = 0
    /\ nFAtSave = 0
    /\ calls = 1

NextPipe ==
    \/ ContoursEnter
    \/ SamplesArgs
    \/ Normalise
    \/ PipeTrimCall
    \/ NextTrimBody
    \/ PipeTrimReturn
    \/ FsEnter
    \/ FsEval
    \/ FsConcat
    \/ FsSave
    \/ ContoursGrid
    \/ CallAgain

(***************************************************************************)
(* mass.py: PMF.  MinCount stands for the n = 1000 of PMF.__init__, scaled *)
(* to the lengths the model explores.  A mass is kept as [root, rad],      *)
(* standing for rad^(1/root): the exponential of a linear interpolation of *)
(* logarithms is a root of a product of powers.                            *)
(***************************************************************************)
notPmf == <<parVars, trimVars, pipeVars>>

ColVals == {0, 2, 4}
DensVals == 1..3
TArgs == -1..5

Range(q) == {q[i] : i \in 1..Len(q)}

\* scipy.stats.gaussian_kde(samples) raises for a column without spread
Degenerate(c) == Cardinality(Range(c)) < 2

\* kernel = scipy.stats.gaussian_kde(samples)
PmfKernel ==
    /\ pmf_pc = "init"
    /\ pmf_pc' = IF Degenerate(column) THEN "failed" ELSE "kernel"
    /\ UNCHANGED <<column, ts, ts_is_samples, ps, logms, t_arg, mass>>
    /\ UNCHANGED notPmf

\* if len(samples) < n: [ts] = kernel.resample(n)  else: ts = samples
PmfResample ==
    /\ pmf_pc = "kernel"
    /\ IF Len(column) < MinCount
       THEN /\ ts' \in [1..MinCount -> ColVals]
            /\ ts_is_samples' = FALSE
       ELSE /\ ts' = column
            /\ ts_is_samples' = TRUE
    /\ pmf_pc' = "sort"
    /\ UNCHANGED <<column, ps, logms, t_arg, mass>>
    /\ UNCHANGED notPmf

RECURSIVE Insert(_, _)
Insert(v, q) ==
    IF q = << >> THEN <<v>>
    ELSE IF v <= Head(q) THEN <<v>> \o q
    ELSE <<Head(q)>> \o Insert(v, Tail(q))

RECURSIVE Sorted(_)
Sorted(q) == IF q = << >> THEN << >> ELSE Insert(Head(q), Sorted(Tail(q)))

\* ts.sort(): in place, so that an array ts shares with the caller is sorted
PmfSort ==
    /\ pmf_pc = "sort"
    /\ ts' = Sorted(ts)
    /\ column' = IF ts_is_samples THEN Sorted(ts) ELSE column
    /\ pmf_pc' = "density"
    /\ UNCHANGED <<ts_is_samples, ps, logms, t_arg, mass>>
    /\ UNCHANGED notPmf

\* ps = kernel(ts): the fitted density is some positive function of t
PmfDensity ==
    /\ pmf_pc = "density"
    /\ \E dens \in [Range(ts) -> DensVals] :
           ps' = [i \in 1..Len(ts) |-> dens[ts[i]]]
    /\ pmf_pc' = "rank"
    /\ UNCHANGED <<column, ts, ts_is_samples, logms, t_arg, mass>>
    /\ UNCHANGED notPmf

\* the rank an ordinal ranking gives element i: ties in order of appearance
Ordinal(p, i) ==
    Cardinality({j \in 1..Len(p) : p[j] < p[i]})
        + Cardinality({j \in 1..i : p[j] = p[i]})

RankDataOrdinal(p) == [i \in 1..Len(p) |-> Rat(Ordinal(p, i), 1)]

\* scipy.stats.rankdata(ps): the average of the ranks of the tied values
RankData(p) ==
    [i \in 1..Len(p) |->
        LET tied == {j \in 1..Len(p) : p[j] = p[i]}
            total == SumSeq([j \in 1..Len(p) |->
                                IF j \in tied THEN Ordinal(p, j) ELSE 0])
        IN  Rat(total, Cardinality(tied))]

\* logms = numpy.log(rankdata(ps) / float(len(ts))) and the interpolant
PmfRank ==
    /\ pmf_pc = "rank"
    /\ logms' = [i \in 1..Len(ts) |-> RDiv(RankData(ps)[i], Rat(Len(ts), 1))]
    /\ pmf_pc' = "ready"
    /\ UNCHANGED <<column, ts, ts_is_samples, ps, t_arg, mass>>
    /\ UNCHANGED notPmf

RECURSIVE RPow(_, _)
RPow(a, k) == IF k = 0 THEN Rat(1, 1) ELSE RMul(a, RPow(a, k - 1))

\* exp of scipy.interpolate.interp1d(ts, logms, bounds_error=False,
\* fill_value=-inf) at t: 0 outside [ts[0], ts[-1]], the knot's mass at a knot
\* and the log-linear interpolation of the neighbours' masses between knots
ExpInterp(x, m, t) ==
    IF t < x[1] \/ t > x[Len(x)] THEN [root |-> 1, rad |-> Rat(0, 1)]
    ELSE LET j == CHOOSE k \in 1..Len(x) :
                      /\ x[k] <= t
                      /\ \A l \in 1..Len(x) : x[l] <= t => l <= k
         IN  IF x[j] = t THEN [root |-> 1, rad |-> m[j]]
             ELSE [root |-> x[j + 1] - x[j],
                   rad |-> RMul(RPow(m[j], x[j + 1] - t),
                                RPow(m[j + 1], t - x[j]))]

\* PMF.__call__(t): numpy.exp(self._logpmf(t))
PmfCall ==
    /\ pmf_pc = "ready"
    /\ \E t \in TArgs :
           /\ t_arg' = <<t>>
           /\ mass' = <<ExpInterp(ts, logms, t)>>
    /\ pmf_pc' = "called"
    /\ UNCHANGED <<column, ts, ts_is_samples, ps, logms>>
    /\ UNCHANGED notPmf

\* the columns explored: of any order, with and without spread
Columns == UNION {[1..n -> ColVals] : n \in 2..MaxCol}

IdlePmf ==
    /\ column = << >>
    /\ pmf_pc = "idle"
    /\ ts = << >>
    /\ ts_is_samples = FALSE
    /\ ps = << >>
    /\ logms = << >>
    /\ t_arg = None
    /\ mass = None

InitPmf ==
    /\ column \in Columns
    /\ pmf_pc = "init"
    /\ ts = << >>
    /\ ts_is_samples = FALSE
    /\ ps = << >>
    /\ logms = << >>
    /\ t_arg = None
    /\ mass = None

NextPmf ==
    \/ PmfKernel
    \/ PmfResample
    \/ PmfSort
    \/ PmfDensity
    \/ PmfRank
    \/ PmfCall

(***************************************************************************)
(* The parallel execution engine: one call of either backend.              *)
(***************************************************************************)
NoEnviron == [k \in {} |-> ""]

InitPar ==
    /\ backend \in {"openmp", "mpi"}
    /\ array \in Arrays
    /\ precurry \in PreArgs
    /\ postcurry \in PostArgs
    /\ IF backend = "openmp"
       THEN /\ size = 1
            /\ \/ nprocs = None /\ environ \in Environs
               \/ nprocs \in {<<k>> : k \in 1..MaxProcs} /\ environ = NoEnviron
       ELSE /\ size \in 1..MaxProcs
            /\ nprocs = None
            /\ environ = NoEnviron
    /\ n_jobs = None
    /\ omp_pc = "start"
    /\ started = 0
    /\ running = {}
    /\ results = [i \in 1..Len(array) |-> None]
    /\ warned = FALSE
    /\ raised = "none"
    /\ nEvals = 0
    /\ answer = None
    /\ pc = [r \in 1..size |-> "scatter"]
    /\ sendcounts = None
    /\ displacements = None
    /\ inflight = [r \in 1..size |-> None]
    /\ array_local = [r \in 1..size |-> << >>]
    /\ answer_local = [r \in 1..size |-> << >>]
    /\ gathered = [r \in 1..size |-> None]

NextPar ==
    \/ ScatterRoot
    \/ \E r \in Ranks : ScatterRecv(r)
    \/ \E r \in Ranks : MpiEval(r)
    \/ \E r \in Ranks : GatherSend(r)
    \/ GatherRoot
    \/ OmpEnter
    \/ OmpDispatch
    \/ \E i \in 1..MaxLen : OmpFinish(i)
    \/ OmpReturn

Init == InitPar /\ IdleTrim /\ IdlePipe /\ IdlePmf

Next == NextPar

Spec == Init /\ [][Next]_vars

(***************************************************************************)
(* Claims about the parallel execution engine (checked under Spec).        *)
(***************************************************************************)

\* C1: on rank 0, mpi_apply(f, A) returns exactly [f(a) for a in A] in the
\* original row order, for every worker count, every array length (divisible
\* by the worker count or not, shorter than it or not) and every interleaving
\* of the ranks' evaluations.
C1_MpiApplyInOrder ==
    (backend = "mpi" /\ pc[1] = "done")
        => answer = <<Contract(<< >>, array, << >>)>>

\* C1 witness: three ranks, two distinct rows (fewer rows than ranks, not
\* divisible), rank 0 has returned the two results in order.
C1_Witness ==
    /\ backend = "mpi" /\ pc[1] = "done"
    /\ size = 3 /\ Len(array) = 2 /\ array[1] # array[2]
    /\ nEvals = 2
    /\ answer = <<Contract(<< >>, array, << >>)>>

\* C2: both backends, called with precurry and postcurry, return
\* f(*precurry, x, *postcurry) for each element x of the array, in order.
C2_BackendsInterchangeable ==
    /\ (backend = "openmp" /\ omp_pc = "done" /\ raised = "none")
           => answer = <<Contract(precurry, array, postcurry)>>
    /\ (backend = "mpi" /\ pc[1] = "done")
           => answer = <<Contract(precurry, array, postcurry)>>

\* C7: without an explicit nprocs, an unset, empty or meaningless
\* OMP_NUM_THREADS ends the call with EnvironmentError and no evaluation of f;
\* with OMP_NUM_THREADS = 1 a warning is emitted and the call completes.
C7_OpenmpConfiguration ==
    (backend = "openmp" /\ omp_pc = "done" /\ nprocs = None)
        => /\ ("OMP_NUM_THREADS" \notin DOMAIN environ)
                  => (raised = "EnvironmentError" /\ nEvals = 0)
           /\ ("OMP_NUM_THREADS" \in DOMAIN environ)
                  => /\ environ["OMP_NUM_THREADS"] \in {"", "0", "abc"}
                             => (raised = "EnvironmentError" /\ nEvals = 0)
                     /\ environ["OMP_NUM_THREADS"] = "1"
                             => /\ warned
                                /\ raised = "none"
                                /\ answer = <<Contract(precurry, array, postcurry)>>

\* C8: the number of rows the claim gives rank r, and the row its shard
\* starts after.
C8_Count(r) ==
    (Len(array) \div size) + (IF r < Len(array) % size THEN 1 ELSE 0)

RECURSIVE C8_Start(_)
C8_Start(r) == IF r = 0 THEN 0 ELSE C8_Start(r - 1) + C8_Count(r - 1)

\* C8: mpi_scatter_array gives rank r the contiguous shard of floor(n/P) + 1
\* rows if r < n mod P and of floor(n/P) rows otherwise, starting at the sum
\* of the lower ranks' shard sizes; the shards are disjoint and cover every
\* row exactly once.
C8_ScatterPartition ==
    backend = "mpi" =>
        /\ \A r \in Ranks :
               pc[r + 1] # "scatter" =>
                   array_local[r + 1] =
                       SubSeq(array, C8_Start(r) + 1, C8_Start(r) + C8_Count(r))
        /\ pc[1] # "scatter" =>
               /\ sendcounts = [r \in 1..size |-> C8_Count(r - 1)]
               /\ displacements = [r \in 1..size |-> C8_Start(r - 1)]
               /\ C8_Start(size) = Len(array)

\* C8 witness: every one of three ranks holds its shard of an array whose
\* length leaves a remainder, and the lowest rank holds one row more than
\* the highest.
C8_Witness ==
    /\ backend = "mpi" /\ size = 3 /\ Len(array) % size = 1
    /\ \A r \in Ranks : pc[r + 1] # "scatter"
    /\ Len(array_local[1]) = Len(array_local[3]) + 1

(***************************************************************************)
(* trim_samples on its own (checked under SpecTrim).                       *)
(***************************************************************************)
IdlePar ==
    /\ backend = "mpi"
    /\ array = <<<<0>>>>
    /\ precurry = << >>
    /\ postcurry = << >>
    /\ environ = NoEnviron
    /\ nprocs = None
    /\ n_jobs = None
    /\ omp_pc = "done"
    /\ started = 0
    /\ running = {}
    /\ results = << >>
    /\ warned = FALSE
    /\ raised = "none"
    /\ nEvals = 0
    /\ answer = None
    /\ size = 1
    /\ pc = <<"done">>
    /\ sendcounts = None
    /\ displacements = None
    /\ inflight = <<None>>
    /\ array_local = <<None>>
    /\ answer_local = <<None>>
    /\ gathered = <<None>>

InitT == InitTrim /\ IdlePar /\ IdlePipe /\ IdlePmf

SpecTrim == InitT /\ [][NextTrim]_vars

\* C4: when trim_samples(samples, weights) returns, for samples and weights
\* of matching length, the global generator state is the state it had when
\* the call was entered, whatever that state was and however many draws the
\* call made after reseeding.
C4_TrimRestoresRng ==
    t_pc = "return" => rng = rng_at_call

\* C4 witness: a call entered in a state other than the seeded one, which
\* drew twice, kept one sample and rejected the other, has returned.
C4_Witness ==
    /\ t_pc = "return"
    /\ rng_at_call.key = 0 /\ rng_at_call.pos > 0
    /\ Len(t_weights) = 2 /\ Len(t_new) = 1
    /\ rng = rng_at_call

(***************************************************************************)
(* compute_contours (checked under SpecContours).                          *)
(***************************************************************************)
InitC == InitPipe /\ IdlePar /\ IdleTrim /\ IdlePmf

SpecContours == InitC /\ [][NextPipe]_vars

\* the retained samples of all models, and whether the evaluation stage
\* of this call has ended (by returning or by raising)
Retained == SumSeq([m \in 1..Len(samples) |-> Len(samples[m])])
StageEnded == checked # "no" /\ cc_pc \in {"grid", "done"}

\* C3: with a cache identifier, compute_samples calls cache.check before any
\* evaluation of f; f is evaluated and cache.save is called, exactly once,
\* after all evaluations and before the return, if and only if the check
\* raised CacheError; on a successful check the checked matrix is returned
\* with no evaluation of f and no save; a CacheError never propagates.
C3_CacheFirstProtocol ==
    /\ nF > 0 /\ args.cache # None => checked # "no"
    /\ nSaves <= 1
    /\ exc # "CacheError"
    /\ StageEnded =>
          /\ checked = "miss" <=> nSaves = 1
          /\ checked = "miss" => (nFAtSave = nF /\ nF = Retained)
          /\ checked = "hit" =>
                 /\ nF = 0
                 /\ fsamps = CacheCheck(cache_store, args.x.vals, samples)

\* C3, where some sample is retained: the protocol as the claim states it.
C3_ProtocolWhenRetained ==
    /\ nF > 0 /\ args.cache # None => checked # "no"
    /\ nSaves <= 1
    /\ exc # "CacheError"
    /\ (StageEnded /\ Retained > 0) =>
          /\ checked = "miss" <=> nSaves = 1
          /\ checked = "miss" => (nFAtSave = nF /\ nF = Retained)
          /\ checked = "hit" =>
                 /\ nF = 0
                 /\ fsamps = CacheCheck(cache_store, args.x.vals, samples)

\* C5: what the claim expects of a call with models m (non-empty) and an
\* empty one: the matrix of the call with model m alone.
C5_Alone(m) ==
    LET w == <<WeightArray(args.weights[m], args.samples[m])>>
        lz == <<args.logZs[1][m]>>
        w1 == EvidenceScale(w, lz)
        p == TrimScale(DivideBy(w1, WMax(w1)), args.ntrim)
        kept == Mask(args.samples[m].rows, Choices(Seeded, p[1]))
    IN  Transpose(ParallelApply(m, kept, args.x.vals), Len(args.x.vals))

\* C5: a multi-model call in which one model has no samples (zero rows, 2-D)
\* and the other has some does not raise, and returns what the call with the
\* non-empty model alone returns.
C5_EmptyModelSkipped ==
    \A m \in 1..2 :
        (/\ args \in ValidCalls
         /\ args.logZs # None
         /\ args.samples[m].rows # << >>
         /\ args.samples[3 - m].rows = << >>
         /\ cc_pc = "done")
            => /\ exc = "none"
               /\ fsamps = <<C5_Alone(m)>>

\* C6: the inputs the claim calls invalid.
C6_Invalid(a) ==
    \/ a.extra
    \/ \E i \in 1..Len(a.samples) : a.samples[i].ndim # 2
    \/ a.x.ndim # 1
    \/ a.y # None /\ a.y[1].ndim # 1
    \/ \E i \in 1..Len(a.samples) :
          /\ i <= Len(a.weights)
          /\ a.weights[i] # None
          /\ Len(a.weights[i][1]) # Len(a.samples[i].rows)
    \/ a.logZs # None /\ {Len(a.logZs[1]), Len(a.f), Len(a.samples),
                          Len(a.weights)} # {Len(a.logZs[1])}
    \/ \E i \in 1..Len(a.f) : ~a.f[i]

\* C6: compute_contours ends with a validation error, before any trimming,
\* cache access or evaluation of f, when samples are not 2-D, x is not 1-D, a
\* supplied y is not 1-D, weights and samples differ in length, the lists of
\* logZs, f, samples and weights differ in length, f is not callable or a
\* keyword is not recognised.
C6_ValidationFailsFast ==
    C6_Invalid(args) =>
        /\ nTrim = 0 /\ nCacheOps = 0 /\ nF = 0
        /\ cc_pc = "done" => exc \in {"ValueError", "TypeError"}

\* C9: every acceptance probability compute_samples hands to trim_samples
\* lies in [0, 1]; the largest is exactly 1 when ntrim does not apply
\* (ntrim >= the total), and the total is ntrim when it does.  (wmax is set
\* once the weights are normalised: every model has non-negative weights of
\* positive sum.)
C9_AcceptanceProbabilities ==
    wmax # None =>
        /\ \A m \in 1..Len(weights) : \A i \in 1..Len(weights[m]) :
               RLe(Rat(0, 1), weights[m][i]) /\ RLe(weights[m][i], Rat(1, 1))
        /\ (cc_pc = "trim" /\ t_pc # "idle") => t_weights = weights[trim_i]
        /\ IF RLt(Rat(args.ntrim, 1), ntot[1])
           THEN NTot(weights) = Rat(args.ntrim, 1)
           ELSE WMax(weights) = Rat(1, 1) /\ NTot(weights) = ntot[1]

\* C9 witness: two models of different evidence, three weights, ntrim = 1
\* below the total: the second model's probabilities are being drawn against.
C9_Witness ==
    /\ wmax # None
    /\ args.logZs = <<<<-1, 0>>>>
    /\ RLt(Rat(args.ntrim, 1), ntot[1])
    /\ cc_pc = "trim" /\ trim_i = 2 /\ t_pc = "rand"
    /\ Len(weights[1]) = 2 /\ Len(weights[2]) = 1
    /\ weights[1][1] # weights[1][2]
    /\ NTot(weights) = Rat(1, 1)

(***************************************************************************)
(* The probability mass transform (checked under SpecPMF).                 *)
(***************************************************************************)
InitM == InitPmf /\ IdlePar /\ IdleTrim /\ IdlePipe

SpecPMF == InitM /\ [][NextPmf]_vars

\* C10: the rank the claim gives the density at knot i, doubled: the values
\* below it count twice, the values tied with it (itself included) once,
\* plus one.
C10_TwiceRank(i) ==
    2 * Cardinality({j \in 1..Len(ps) : ps[j] < ps[i]})
        + Cardinality({j \in 1..Len(ps) : ps[j] = ps[i]}) + 1

\* C10: for a non-degenerate column and every y, PMF(column)(y) lies in
\* [0, 1]; it is 0 for every y outside the range of the (possibly augmented)
\* sorted values; at each sorted value it is rank(density)/count, ties given
\* their average rank, and so lies in (0, 1].
C10_PmfBounds ==
    pmf_pc = "called" =>
        LET v == mass[1]
            y == t_arg[1]
        IN  /\ RLe(Rat(0, 1), v.rad) /\ RLe(v.rad, Rat(1, 1))
            /\ (y < MinInt(ts) \/ y > MaxInt(ts)) => v.rad = Rat(0, 1)
            /\ \A i \in 1..Len(ts) :
                   ts[i] = y =>
                       /\ v.root = 1
                       /\ v.rad = Rat(C10_TwiceRank(i), 2 * Len(ts))
                       /\ RLt(Rat(0, 1), v.rad)

\* C10 witness: a column shorter than the minimum count, augmented draws,
\* the two least densities tied (average rank 3/2), and the mass asked at
\* the first sorted value.
C10_Witness ==
    /\ pmf_pc = "called"
    /\ ~ts_is_samples
    /\ Cardinality(Range(ts)) = Len(ts)
    /\ ps[1] = ps[2] /\ ps[1] < ps[3]
    /\ t_arg = <<ts[1]>>
    /\ mass[1].rad = Rat(3, 2 * Len(ts))

(***************************************************************************)
(* The y-grid of compute_contours (checked under SpecContours).            *)
(***************************************************************************)
\* C11: when compute_contours is called without y and returns, the y-grid is
\* the linear sequence of exactly ny points (ny the keyword, 100 by default)
\* from the minimum to the maximum of the entries of the function-evaluation
\* matrix.
C11_YGridOfNyPoints ==
    (cc_pc = "done" /\ exc = "none" /\ args.y = None) =>
        y_out = <<[lo |-> MinInt(Flatten(fsamps[1])),
                   hi |-> MaxInt(Flatten(fsamps[1])),
                   num |-> args.ny]>>

\* the part of C11 about the end points alone
C11_YGridSpansMatrix ==
    (cc_pc = "done" /\ exc = "none" /\ args.y = None) =>
        /\ y_out[1].lo = MinInt(Flatten(fsamps[1]))
        /\ y_out[1].hi = MaxInt(Flatten(fsamps[1]))
        /\ \A v \in {Flatten(fsamps[1])[i] : i \in 1..Len(Flatten(fsamps[1]))} :
               y_out[1].lo <= v /\ v <= y_out[1].hi

(***************************************************************************)
(* The frame of PMF.__init__ (checked under SpecPMF).                      *)
(***************************************************************************)
\* C12: constructing PMF(samples) leaves the caller's samples array
\* unchanged, the same values in the same positions, for every column
\* length: no step of the construction changes the array, below the minimum
\* count (augmented draws) and at or above it (the column used directly).
C12_SamplesUnchanged == [][column' = column]_vars

\* the part of C12 about columns below the minimum count
C12_UnchangedWhenAugmented == [][~ts_is_samples' => column' = column]_vars

=============================================================================
